---- MODULE Spec2Model ----
(***************************************************************************)
(* Model of composer-workflow/dual_trainer_with_tfdv_dag.py: the Airflow   *)
(* DAG "dual_trainer_with_tfdv", its two Python callables                  *)
(* (check_table_exists, run_analyzer) and the BigQuery / GCS / Dataflow    *)
(* state its ten tasks act on.                                             *)
(***************************************************************************)
EXTENDS Integers, Sequences, FiniteSets, TLC

\* ------------------------------------------------------------- bounds
\* The clock counts ticks; TicksPerSecond of them make one wall-clock second.
MaxTime == 3
TicksPerSecond == 2
\* The DAG runs that may overlap: the "@once" run and a manually triggered one.
Runs == {"scheduled", "manual"}

\* ------------------------------------------------- module-level constants
PROJECT_ID == "edgeml-demo"
REGION == "us-central"
MLFLOW_GCS_ROOT_URI == ""
DATASET_GCS_FOLDER == MLFLOW_GCS_ROOT_URI \o "/data"
BQ_DATASET == "chicago_taxi_trips"
BQ_TABLE == "taxi_trips"
BQ_TEST_Q == "BQ_TEST_Q"

\* MOD(ABS(FARM_FINGERPRINT(unique_key)), 100) ... LIMIT 1000
HashModulus == 100
QueryLimit == 1000

\* The segment definitions; dataset_range "between lo and hi" is kept as the
\* two operands of the SQL BETWEEN it is formatted into.
tasks ==
    << [postfix |-> "training",   dataset_range |-> [lo |-> 0,  hi |-> 80]],
       [postfix |-> "eval",       dataset_range |-> [lo |-> 80, hi |-> 95]],
       [postfix |-> "validation", dataset_range |-> [lo |-> 95, hi |-> 100]] >>

Segments == 1..Len(tasks)

\* Variant of table_name: the postfix left out of the table identifier.
table_name_shared(postfix) ==
    PROJECT_ID \o "." \o BQ_DATASET \o "." \o BQ_TABLE

table_name(postfix) ==
    PROJECT_ID \o "." \o BQ_DATASET \o "." \o BQ_TABLE \o "_" \o postfix

gcs_file_name(postfix) == DATASET_GCS_FOLDER \o "/ds_" \o postfix \o ".csv"

tfdv_statistics_task == "tfdv_statistics_task"
delete_table(i) == "delete_table_" \o tasks[i].postfix
split_table(i) == "split_table_" \o tasks[i].postfix
extract_to_gcs(i) == "extract_to_gcs_" \o tasks[i].postfix

\* The task ids registered in the DAG.
TaskIds ==
    {tfdv_statistics_task}
        \cup {delete_table(i) : i \in Segments}
        \cup {split_table(i) : i \in Segments}
        \cup {extract_to_gcs(i) : i \in Segments}

\* Variant of Edges: every task wired directly behind tfdv_statistics_task
\* (tfdv_statistics_task >> [delete_table, split_table, extract_to_gcs]).
EdgesUnchained ==
    UNION { { <<tfdv_statistics_task, delete_table(i)>>,
              <<tfdv_statistics_task, split_table(i)>>,
              <<tfdv_statistics_task, extract_to_gcs(i)>> } : i \in Segments }

\* Variant of Edges: the three chains wired one behind the other
\* (... >> extract_to_gcs of one segment >> delete_table of the next ...).
EdgesInSeries ==
    UNION { { <<IF i = 1 THEN tfdv_statistics_task ELSE extract_to_gcs(i - 1),
                delete_table(i)>>,
              <<delete_table(i), split_table(i)>>,
              <<split_table(i), extract_to_gcs(i)>> } : i \in Segments }

\* Variant of Edges: each chain closed into a cycle
\* (... >> extract_to_gcs >> delete_table of the same segment).
EdgesCyclic ==
    UNION { { <<tfdv_statistics_task, delete_table(i)>>,
              <<delete_table(i), split_table(i)>>,
              <<split_table(i), extract_to_gcs(i)>>,
              <<extract_to_gcs(i), delete_table(i)>> } : i \in Segments }

\* tfdv_statistics_task >> delete_table >> split_table >> extract_to_gcs,
\* once per segment: the set of (upstream, downstream) edges.
Edges ==
    UNION { { <<tfdv_statistics_task, delete_table(i)>>,
              <<delete_table(i), split_table(i)>>,
              <<split_table(i), extract_to_gcs(i)>> } : i \in Segments }

Upstream(t) == {e[1] : e \in {d \in Edges : d[2] = t}}

\* The tasks downstream of t, over any number of edges.
RECURSIVE Reach(_, _)
Reach(found, n) ==
    IF n = 0 THEN found
    ELSE Reach(found \cup {e[2] : e \in {d \in Edges : d[1] \in found}}, n - 1)

Descendants(t) ==
    Reach({e[2] : e \in {d \in Edges : d[1] = t}}, Cardinality(TaskIds))

TableNames == {table_name(tasks[i].postfix) : i \in Segments}
GcsNames == {gcs_file_name(tasks[i].postfix) : i \in Segments}

\* ------------------------------------------------------------ the query
Abs(x) == IF x < 0 THEN 0 - x ELSE x

\* A row is identified by FARM_FINGERPRINT(unique_key), a signed integer.
HashBucket(row) == Abs(row) % HashModulus

\* SQL "x BETWEEN lo AND hi": both ends included.
Between(x, range) == range.lo <= x /\ x <= range.hi

\* The rows BQ_QUERY.format(dataset_range) selects before LIMIT.
Selected(rows, range) == {row \in rows : Between(HashBucket(row), range)}

\* The subsets of S that have k elements.
RECURSIVE KSubsets(_, _)
KSubsets(S, k) ==
    IF k = 0 THEN {{}}
    ELSE IF k = 1 THEN {{x} : x \in S}
    ELSE IF Cardinality(S) < k THEN {}
    ELSE LET x == CHOOSE y \in S : TRUE
         IN  KSubsets(S \ {x}, k) \cup {D \cup {x} : D \in KSubsets(S \ {x}, k - 1)}

\* LIMIT n without ORDER BY: any n of the selected rows, that is, the
\* selected rows without any Cardinality(rows) - n of them.
Limited(rows, n) ==
    IF Cardinality(rows) <= n
    THEN {rows}
    ELSE {rows \ D : D \in KSubsets(rows, Cardinality(rows) - n)}

BQ_QUERY(rows, range) == Limited(Selected(rows, range), QueryLimit)

\* A source table of 100 rows, one per hash bucket 0..99, of either sign.
UniformSource ==
    {IF b % 2 = 0 THEN b ELSE 0 - (HashModulus + b) : b \in 0..(HashModulus - 1)}

\* A source table with one row more than LIMIT returns, all of them in hash
\* bucket 97, the range of the validation segment.
LargeSource == {97 + HashModulus * k : k \in 0..QueryLimit}

\* ------------------------------------------------------------ the clock
\* time.strftime('%Y%m%d-%H%M%S'): the wall clock cut to whole seconds.
Strftime(t) == ToString(t \div TicksPerSecond)

JobName(t) == "analyzer" \o "-" \o Strftime(t)

\* What the DAG file computes for op_kwargs when it is loaded at tick t.
OpKwargs(t) ==
    [ containerSpecGcsPath |-> MLFLOW_GCS_ROOT_URI \o "/tfdv_csv_analyzer.json",
      job_name |-> JobName(t),
      query |-> BQ_TEST_Q,
      start_time |-> "1990-01-01T00:00:00",
      end_time |-> Strftime(t),
      output_path |-> DATASET_GCS_FOLDER \o "/stats" ]

\* --------------------------------------------------------- run_analyzer
None == [tag |-> "None"]
Str(s) == [tag |-> "str", val |-> s]

\* Variant of Truthy: the test "is not None" in place of the truth value.
TruthyNotNone(v) == v # None

\* Python truth value of an Optional[str].
Truthy(v) == v # None /\ v.val # ""

\* Variant of BaseParameters: the schema file looked up beside the output.
BaseParametersSchemaBesideOutput(query, output_path, start_time, end_time) ==
    [ bq_project_id |-> PROJECT_ID,
      query |-> query,
      start_time |-> start_time,
      end_time |-> end_time,
      output_path |-> output_path,
      schema_file |-> output_path \o "/taxi_schema.pbtxt" ]

BaseParameters(query, output_path, start_time, end_time) ==
    [ bq_project_id |-> PROJECT_ID,
      query |-> query,
      start_time |-> start_time,
      end_time |-> end_time,
      output_path |-> output_path,
      schema_file |-> DATASET_GCS_FOLDER \o "/taxi_schema.pbtxt" ]

Parameters(query, output_path, start_time, end_time, baseline_stats_location) ==
    IF Truthy(baseline_stats_location)
    THEN BaseParameters(query, output_path, start_time, end_time)
            @@ [baseline_stats_file |-> baseline_stats_location.val]
    ELSE BaseParameters(query, output_path, start_time, end_time)

\* The request run_analyzer hands to flexTemplates().launch.
LaunchRequest(job_name, containerSpecGcsPath, query, output_path, start_time, end_time, baseline_stats_location) ==
    [ location |-> REGION,
      projectId |-> PROJECT_ID,
      body |-> [launch_parameter |->
                  [ jobName |-> job_name,
                    parameters |-> Parameters(query, output_path, start_time,
                                              end_time, baseline_stats_location),
                    containerSpecGcsPath |-> containerSpecGcsPath ]] ]

\* ------------------------------------------------------------- state
VARIABLES
    now,        \* wall clock, in ticks
    op_kwargs,  \* op_kwargs of tfdv_statistics_task in the loaded DAG
    loadedAt,   \* tick at which the DAG file was last evaluated
    dag_runs,   \* the runs triggered so far
    ti,         \* ti[run][task id]: state of the task instance
    launched,   \* launched[run]: what the run's run_analyzer call submitted
    job,        \* job[run]: state of the Dataflow job the run launched
    source,     \* rows of the source table
    tables,     \* tables[name]: destination table, or NoTable
    gcs,        \* gcs[name]: exported object, or NoObject
    branch,     \* the last check_table_exists call and the task id it returned
    direct,     \* a call of run_analyzer with arguments of the caller's choice
    followed    \* the segments whose chains the specification follows

vars == <<now, op_kwargs, loadedAt, dag_runs, ti, launched, job, source, tables, gcs, branch, direct, followed>>

NoTable == [missing |-> TRUE]
NoObject == [missing |-> TRUE]
NoLaunch == [missing |-> TRUE]
NoCall == [missing |-> TRUE]

Start ==
    /\ now = 0
    /\ op_kwargs = OpKwargs(0)
    /\ loadedAt = 0
    /\ dag_runs = {}
    /\ ti = [r \in Runs |-> [t \in TaskIds |-> "none"]]
    /\ launched = [r \in Runs |-> NoLaunch]
    /\ job = [r \in Runs |-> "none"]
    /\ source = UniformSource
    /\ tables = [n \in TableNames |-> NoTable]
    /\ gcs = [n \in GcsNames |-> NoObject]
    /\ branch = NoCall

\* The whole DAG.
Init == Start /\ direct = NoCall /\ followed = Segments

\* The chains of different segments share no task, table or object, so the
\* overlap of two runs is followed on one segment's chain at a time.
InitOverlap == Start /\ direct = NoCall /\ \E i \in Segments : followed = {i}

\* The tasks of the followed part of the DAG.
Followed ==
    {tfdv_statistics_task}
        \cup {delete_table(i) : i \in followed}
        \cup {split_table(i) : i \in followed}
        \cup {extract_to_gcs(i) : i \in followed}

\* ------------------------------------------------------ the environment
\* The wall clock advances.
Tick ==
    /\ now < MaxTime
    /\ now' = now + 1
    /\ UNCHANGED <<op_kwargs, loadedAt, dag_runs, ti, launched, job, source, tables, gcs, branch, direct, followed>>

\* The DAG file is evaluated again (scheduler or worker re-parse): the
\* f-strings of op_kwargs are computed from the clock at that moment.
LoadDag ==
    /\ loadedAt # now
    /\ op_kwargs' = OpKwargs(now)
    /\ loadedAt' = now
    /\ UNCHANGED <<now, dag_runs, ti, launched, job, source, tables, gcs, branch, direct, followed>>

\* A DAG run is created.
TriggerRun(r) ==
    /\ r \notin dag_runs
    /\ dag_runs' = dag_runs \cup {r}
    /\ UNCHANGED <<now, op_kwargs, loadedAt, ti, launched, job, source, tables, gcs, branch, direct, followed>>

\* Variant of StartTask: trigger rule all_done in place of all_success.
StartTaskAllDone(r, t) ==
    /\ r \in dag_runs
    /\ t \in Followed
    /\ ti[r][t] = "none"
    /\ \A u \in Upstream(t) : ti[r][u] \in {"success", "failed", "upstream_failed"}
    /\ ti' = [ti EXCEPT ![r][t] = "running"]
    /\ UNCHANGED <<now, op_kwargs, loadedAt, dag_runs, launched, job, source,
                   tables, gcs, branch, direct, followed>>

\* Variant of StartTask: a failed task instance is started again
\* ('retries' set in default_args).
StartTaskRetry(r, t) ==
    /\ r \in dag_runs
    /\ t \in Followed
    /\ ti[r][t] \in {"none", "failed"}
    /\ \A u \in Upstream(t) : ti[r][u] = "success"
    /\ ti' = [ti EXCEPT ![r][t] = "running"]
    /\ UNCHANGED <<now, op_kwargs, loadedAt, dag_runs, launched, job, source,
                   tables, gcs, branch, direct, followed>>

\* The scheduler starts a task instance whose upstream tasks all succeeded
\* (trigger rule all_success, the operators' default).
StartTask(r, t) ==
    /\ r \in dag_runs
    /\ t \in Followed
    /\ ti[r][t] = "none"
    /\ \A u \in Upstream(t) : ti[r][u] = "success"
    /\ ti' = [ti EXCEPT ![r][t] = "running"]
    /\ UNCHANGED <<now, op_kwargs, loadedAt, dag_runs, launched, job, source, tables, gcs, branch, direct, followed>>

\* The scheduler gives up on a task instance one of whose upstream tasks failed.
MarkUpstreamFailed(r, t) ==
    /\ r \in dag_runs
    /\ t \in Followed
    /\ ti[r][t] = "none"
    /\ \E u \in Upstream(t) : ti[r][u] \in {"failed", "upstream_failed"}
    /\ ti' = [ti EXCEPT ![r][t] = "upstream_failed"]
    /\ UNCHANGED <<now, op_kwargs, loadedAt, dag_runs, launched, job, source, tables, gcs, branch, direct, followed>>

\* The launched Dataflow job ends, on its own schedule.
JobFinish(r, outcome) ==
    /\ job[r] = "running"
    /\ job' = [job EXCEPT ![r] = outcome]
    /\ UNCHANGED <<now, op_kwargs, loadedAt, dag_runs, ti, launched, source, tables, gcs, branch, direct, followed>>

\* ------------------------------------------------------------ the tasks
\* Variant of RunAnalyzer: the call waits for the launched job and reports
\* the job's outcome.
RunAnalyzerPolling(r, ok) ==
    /\ ti[r][tfdv_statistics_task] = "running"
    /\ launched' = [launched EXCEPT ![r] =
            [ request |-> LaunchRequest(op_kwargs.job_name,
                                        op_kwargs.containerSpecGcsPath,
                                        op_kwargs.query, op_kwargs.output_path,
                                        op_kwargs.start_time, op_kwargs.end_time,
                                        None),
              tick |-> now,
              definition |-> loadedAt ]]
    /\ job' = [job EXCEPT ![r] = IF ok THEN "done" ELSE "failed"]
    /\ ti' = [ti EXCEPT ![r][tfdv_statistics_task] =
                 IF ok THEN "success" ELSE "failed"]
    /\ UNCHANGED <<now, op_kwargs, loadedAt, dag_runs, source, tables, gcs,
                   branch, direct, followed>>

\* tfdv_statistics_task: run_analyzer(**op_kwargs) builds the request and
\* request.execute() submits it; ok is whether the submission call returned.
RunAnalyzer(r, ok) ==
    /\ ti[r][tfdv_statistics_task] = "running"
    /\ launched' = [launched EXCEPT ![r] =
            [ request |-> LaunchRequest(op_kwargs.job_name,
                                        op_kwargs.containerSpecGcsPath,
                                        op_kwargs.query, op_kwargs.output_path,
                                        op_kwargs.start_time, op_kwargs.end_time,
                                        None),
              tick |-> now,
              definition |-> loadedAt ]]
    /\ IF ok
       THEN /\ job' = [job EXCEPT ![r] = "running"]
            /\ ti' = [ti EXCEPT ![r][tfdv_statistics_task] = "success"]
       ELSE /\ job' = job
            /\ ti' = [ti EXCEPT ![r][tfdv_statistics_task] = "failed"]
    /\ UNCHANGED <<now, op_kwargs, loadedAt, dag_runs, source, tables, gcs, branch, direct, followed>>

\* Variant of DeleteTable: ignore_if_missing = False, deleting a table that
\* does not exist is an error.
DeleteTableStrict(r, i, ok) ==
    /\ ti[r][delete_table(i)] = "running"
    /\ IF ok /\ tables[table_name(tasks[i].postfix)] # NoTable
       THEN /\ tables' = [tables EXCEPT ![table_name(tasks[i].postfix)] = NoTable]
            /\ ti' = [ti EXCEPT ![r][delete_table(i)] = "success"]
       ELSE /\ tables' = tables
            /\ ti' = [ti EXCEPT ![r][delete_table(i)] = "failed"]
    /\ UNCHANGED <<now, op_kwargs, loadedAt, dag_runs, launched, job, source,
                   gcs, branch, direct, followed>>

\* Variant of DeleteTable: a run leaves alone a table another run materialized.
DeleteTableOwn(r, i, ok) ==
    /\ ti[r][delete_table(i)] = "running"
    /\ IF ok
       THEN /\ tables' =
                 IF tables[table_name(tasks[i].postfix)] = NoTable
                 THEN tables
                 ELSE IF tables[table_name(tasks[i].postfix)].by = r
                      THEN [tables EXCEPT ![table_name(tasks[i].postfix)] = NoTable]
                      ELSE tables
            /\ ti' = [ti EXCEPT ![r][delete_table(i)] = "success"]
       ELSE /\ tables' = tables
            /\ ti' = [ti EXCEPT ![r][delete_table(i)] = "failed"]
    /\ UNCHANGED <<now, op_kwargs, loadedAt, dag_runs, launched, job, source,
                   gcs, branch, direct, followed>>

\* delete_table_<postfix>: BigQueryTableDeleteOperator, ignore_if_missing.
DeleteTable(r, i, ok) ==
    /\ ti[r][delete_table(i)] = "running"
    /\ IF ok
       THEN /\ tables' = [tables EXCEPT ![table_name(tasks[i].postfix)] = NoTable]
            /\ ti' = [ti EXCEPT ![r][delete_table(i)] = "success"]
       ELSE /\ tables' = tables
            /\ ti' = [ti EXCEPT ![r][delete_table(i)] = "failed"]
    /\ UNCHANGED <<now, op_kwargs, loadedAt, dag_runs, launched, job, source, gcs, branch, direct, followed>>

\* Write disposition WRITE_EMPTY: the destination is absent or holds no rows.
WriteEmpty(table) == IF table = NoTable THEN TRUE ELSE table.rows = {}

\* split_table_<postfix>: BigQueryOperator writing BQ_QUERY's result into the
\* destination table; the operator's default write disposition refuses a
\* table that already holds rows.
SplitTable(r, i, ok) ==
    /\ ti[r][split_table(i)] = "running"
    /\ IF ok
       THEN /\ WriteEmpty(tables[table_name(tasks[i].postfix)])
            /\ \E result \in BQ_QUERY(source, tasks[i].dataset_range) :
                 tables' = [tables EXCEPT ![table_name(tasks[i].postfix)] =
                                [rows |-> result, by |-> r]]
            /\ ti' = [ti EXCEPT ![r][split_table(i)] = "success"]
       ELSE /\ tables' = tables
            /\ ti' = [ti EXCEPT ![r][split_table(i)] = "failed"]
    /\ UNCHANGED <<now, op_kwargs, loadedAt, dag_runs, launched, job, source, gcs, branch, direct, followed>>

\* extract_to_gcs_<postfix>: BigQueryToCloudStorageOperator.
ExtractToGcs(r, i, ok) ==
    /\ ti[r][extract_to_gcs(i)] = "running"
    /\ IF ok
       THEN /\ tables[table_name(tasks[i].postfix)] # NoTable
            /\ gcs' = [gcs EXCEPT ![gcs_file_name(tasks[i].postfix)] =
                          [ rows |-> tables[table_name(tasks[i].postfix)].rows,
                            table_by |-> tables[table_name(tasks[i].postfix)].by,
                            by |-> r ]]
            /\ ti' = [ti EXCEPT ![r][extract_to_gcs(i)] = "success"]
       ELSE /\ gcs' = gcs
            /\ ti' = [ti EXCEPT ![r][extract_to_gcs(i)] = "failed"]
    /\ UNCHANGED <<now, op_kwargs, loadedAt, dag_runs, launched, job, source, tables, branch, direct, followed>>

\* ---------------------------------------------------- check_table_exists
SourceTable == "bigquery-public-data" \o "." \o BQ_DATASET \o "." \o BQ_TABLE

\* hook.table_exists(project_id, dataset_id, table_id): the catalog's answer.
table_exists(catalog, project_id, dataset_id, table_id) ==
    LET name == project_id \o "." \o dataset_id \o "." \o table_id
    IN  IF name \in DOMAIN catalog THEN catalog[name] # NoTable ELSE name = SourceTable

\* Variant of check_table_exists: the two task ids exchanged.
check_table_exists_swapped(exists) ==
    IF exists THEN "bq_copy" ELSE "bq_data_statistics"

\* The task id check_table_exists returns for the catalog's answer.
check_table_exists(exists) == IF exists THEN "bq_data_statistics" ELSE "bq_copy"

\* The (project_id, dataset_id, table_id) triples a caller asks about.
CheckKwargs ==
    [ project_id : {PROJECT_ID, "bigquery-public-data"},
      dataset_id : {BQ_DATASET},
      table_id : {BQ_TABLE, BQ_TABLE \o "_" \o tasks[1].postfix} ]

\* A call check_table_exists(**kwargs).
CheckTableExists(kwargs) ==
    /\ branch' = [ kwargs |-> kwargs,
                   result |-> check_table_exists(
                       table_exists(tables, kwargs.project_id,
                                    kwargs.dataset_id, kwargs.table_id)) ]
    /\ UNCHANGED <<now, op_kwargs, loadedAt, dag_runs, ti, launched, job, source,
                   tables, gcs, direct, followed>>

\* The arguments of a direct call of run_analyzer.
DirectArgs ==
    [ job_name : {JobName(0), "analyzer-test"},
      containerSpecGcsPath : {OpKwargs(0).containerSpecGcsPath},
      query : {BQ_TEST_Q, "BQ_TEST_QTS"},
      output_path : {OpKwargs(0).output_path, "gs://bucket/out"},
      start_time : {OpKwargs(0).start_time, "2020-09-01T00:00:00"},
      end_time : {OpKwargs(0).end_time, "2020-09-02T00:00:00"},
      baseline_stats_location :
          {None, Str(""), Str("gs://bucket/baseline"), Str("baseline_stats_file")} ]

\* run_analyzer(**args): the request is built and submitted; ok is whether
\* request.execute() returned a response.
CallRunAnalyzer(ok) ==
    /\ direct # NoCall
    /\ direct.request = NoLaunch
    /\ direct' = [direct EXCEPT
            !.request = LaunchRequest(direct.args.job_name,
                                      direct.args.containerSpecGcsPath,
                                      direct.args.query, direct.args.output_path,
                                      direct.args.start_time, direct.args.end_time,
                                      direct.args.baseline_stats_location),
            !.returned = ok]
    /\ UNCHANGED <<now, op_kwargs, loadedAt, dag_runs, ti, launched, job, source,
                   tables, gcs, branch, followed>>

\* One step of run r.
RunStep(r) ==
    \/ \E t \in TaskIds : StartTask(r, t)
    \/ \E t \in TaskIds : MarkUpstreamFailed(r, t)
    \/ \E ok \in BOOLEAN : RunAnalyzer(r, ok)
    \/ \E i \in Segments, ok \in BOOLEAN : DeleteTable(r, i, ok)
    \/ \E i \in Segments, ok \in BOOLEAN : SplitTable(r, i, ok)
    \/ \E i \in Segments, ok \in BOOLEAN : ExtractToGcs(r, i, ok)

\* The "@once" run alone.
Next ==
    \/ TriggerRun("scheduled")
    \/ RunStep("scheduled")
    \/ \E outcome \in {"done", "failed"} : JobFinish("scheduled", outcome)
    \/ \E kwargs \in CheckKwargs : CheckTableExists(kwargs)

Spec == Init /\ [][Next]_vars

\* The "@once" run under a scheduler that keeps serving the run while one of
\* its tasks can be started, can end or can be given up.
SpecLive == Init /\ [][Next]_vars /\ WF_vars(RunStep("scheduled"))

\* The "@once" run and a manually triggered run, overlapping, under a
\* running clock and re-evaluation of the DAG file.
NextOverlap ==
    \/ Tick
    \/ LoadDag
    \/ \E r \in Runs : TriggerRun(r)
    \/ \E r \in Runs : RunStep(r)

SpecOverlap == InitOverlap /\ [][NextOverlap]_vars

\* What the split_table step of segment i materialized in the first run over
\* LargeSource: one of the results BQ_QUERY can give.
FirstRun(i) == CHOOSE result \in BQ_QUERY(LargeSource, tasks[i].dataset_range) : TRUE

\* A second run of the DAG over an unchanged source table with more matching
\* rows than LIMIT returns. It starts where a first run, in which all ten
\* tasks succeeded, has left the tables and objects; the second run is
\* followed on one segment's chain at a time.
InitRerun ==
    /\ now = 0
    /\ op_kwargs = OpKwargs(0)
    /\ loadedAt = 0
    /\ dag_runs = {"scheduled"}
    /\ ti = [r \in Runs |->
               [t \in TaskIds |-> IF r = "scheduled" THEN "success" ELSE "none"]]
    /\ launched = [r \in Runs |->
          IF r = "scheduled"
          THEN [ request |-> LaunchRequest(OpKwargs(0).job_name,
                                           OpKwargs(0).containerSpecGcsPath,
                                           OpKwargs(0).query, OpKwargs(0).output_path,
                                           OpKwargs(0).start_time, OpKwargs(0).end_time,
                                           None),
                 tick |-> 0,
                 definition |-> 0 ]
          ELSE NoLaunch]
    /\ job = [r \in Runs |-> IF r = "scheduled" THEN "done" ELSE "none"]
    /\ source = LargeSource
    /\ tables = [n \in TableNames |->
          [ rows |-> FirstRun(CHOOSE i \in Segments : table_name(tasks[i].postfix) = n),
            by |-> "scheduled" ]]
    /\ gcs = [n \in GcsNames |->
          [ rows |-> FirstRun(CHOOSE i \in Segments : gcs_file_name(tasks[i].postfix) = n),
            table_by |-> "scheduled",
            by |-> "scheduled" ]]
    /\ branch = NoCall
    /\ direct = NoCall
    /\ \E i \in Segments : followed = {i}

NextRerun ==
    \/ TriggerRun("manual")
    \/ RunStep("manual")

SpecRerun == InitRerun /\ [][NextRerun]_vars

\* run_analyzer called on its own, over the arguments of DirectArgs.
InitLauncher ==
    /\ Start
    /\ followed = Segments
    /\ \E args \in DirectArgs :
         direct = [args |-> args, request |-> NoLaunch, returned |-> FALSE]

NextLauncher == \E ok \in BOOLEAN : CallRunAnalyzer(ok)

SpecLauncher == InitLauncher /\ [][NextLauncher]_vars

\* ======================================================== properties
Began(r, t) == ti[r][t] \in {"running", "success", "failed"}

ChainTasks(i) == {delete_table(i), split_table(i), extract_to_gcs(i)}

\* C1: in every run and for every segment, split_table has not begun unless
\* that segment's delete_table succeeded, and extract_to_gcs has not begun
\* unless that segment's split_table succeeded.
C1_ChainOrder ==
    \A r \in Runs, i \in Segments :
        /\ Began(r, split_table(i)) => ti[r][delete_table(i)] = "success"
        /\ Began(r, extract_to_gcs(i)) => ti[r][split_table(i)] = "success"

\* C1 witness: the chains are at three different places at once: one segment
\* has exported while another is still splitting and a third has not begun.
C1_Interleaved ==
    /\ ti["scheduled"][extract_to_gcs(3)] = "success"
    /\ ti["scheduled"][split_table(2)] = "running"
    /\ ti["scheduled"][delete_table(1)] = "none"

\* C2: tfdv_statistics_task is the only upstream task of every chain's first
\* step; no step of a chain has begun unless it succeeded; and when it has
\* failed no step of any chain has begun.
C2_StatisticsGate ==
    /\ \A i \in Segments : Upstream(delete_table(i)) = {tfdv_statistics_task}
    /\ \A r \in Runs, i \in Segments : \A t \in ChainTasks(i) :
          /\ Began(r, t) => ti[r][tfdv_statistics_task] = "success"
          /\ ti[r][tfdv_statistics_task] = "failed"
                => ti[r][t] \in {"none", "upstream_failed"}

\* C2 witness: the statistics step failed and every chain was given up.
C2_StatisticsFailed ==
    /\ ti["scheduled"][tfdv_statistics_task] = "failed"
    /\ \A i \in Segments : \A t \in ChainTasks(i) :
          ti["scheduled"][t] = "upstream_failed"

\* C3 (as claimed): every hash bucket 0..99, and so every row of the source
\* table, satisfies the filter predicate of exactly one segment.
C3_RangesPartition ==
    /\ \A b \in 0..(HashModulus - 1) :
          Cardinality({i \in Segments : Between(b, tasks[i].dataset_range)}) = 1
    /\ \A row \in source :
          Cardinality({i \in Segments :
                          row \in Selected(source, tasks[i].dataset_range)}) = 1

AllSucceeded(r) == \A t \in TaskIds : ti[r][t] = "success"

\* The half-open bucket range [lo, hi) of a segment.
InHalfOpenRange(row, i) ==
    /\ tasks[i].dataset_range.lo <= HashBucket(row)
    /\ HashBucket(row) < tasks[i].dataset_range.hi

\* C4 (as claimed): after a run in which every step succeeded, each
\* destination table holds exactly the rows whose bucket is in its segment's
\* range [lo, hi), and no row is in two destination tables.
C4_EndToEnd ==
    AllSucceeded("scheduled") =>
        /\ \A i \in Segments :
              tables[table_name(tasks[i].postfix)].rows
                  = {row \in source : InHalfOpenRange(row, i)}
        /\ \A i, j \in Segments :
              i # j => tables[table_name(tasks[i].postfix)].rows
                          \cap tables[table_name(tasks[j].postfix)].rows = {}

\* The wall-clock second of a tick.
Second(t) == t \div TicksPerSecond

\* C5 (as claimed): two runs of one loaded DAG definition that execute the
\* statistics step in different seconds submit different job names.
C5_FreshJobNames ==
    \A r, q \in Runs :
        ( /\ r # q
          /\ launched[r] # NoLaunch
          /\ launched[q] # NoLaunch
          /\ launched[r].definition = launched[q].definition
          /\ Second(launched[r].tick) # Second(launched[q].tick) )
        => launched[r].request.body.launch_parameter.jobName
              # launched[q].request.body.launch_parameter.jobName

\* C6: the parameter map of a run_analyzer call has the key
\* baseline_stats_file exactly when the baseline location is neither None
\* nor the empty string, and then its value is that location.
C6_BaselineKey ==
    (direct # NoCall /\ direct.request # NoLaunch) =>
        LET parameters == direct.request.body.launch_parameter.parameters
            baseline == direct.args.baseline_stats_location
            supplied == baseline # None /\ baseline # Str("")
        IN  /\ ("baseline_stats_file" \in DOMAIN parameters) <=> supplied
            /\ supplied => parameters["baseline_stats_file"] = baseline.val

\* C6 witness: a call with the empty string as baseline built a parameter
\* map without the key.
C6_EmptyBaselineOmitted ==
    /\ direct # NoCall
    /\ direct.request # NoLaunch
    /\ direct.args.baseline_stats_location = Str("")
    /\ "baseline_stats_file" \notin
          DOMAIN direct.request.body.launch_parameter.parameters

\* C7: the step that ends the statistics task is the return of the submission
\* call: it succeeds exactly when the job was launched by that step, and the
\* job it leaves behind is still running, not finished.
C7_SubmissionGates ==
    [][\A r \in Runs :
          ( /\ ti[r][tfdv_statistics_task] = "running"
            /\ ti'[r][tfdv_statistics_task] # "running" )
          => /\ job[r] = "none"
             /\ ti'[r][tfdv_statistics_task] = "success" <=> job'[r] = "running"
             /\ ti'[r][tfdv_statistics_task] = "failed" <=> job'[r] = "none"]_vars

\* C7 witness: a chain step runs while the launched job has not finished.
C7_ChainRunsBeforeJobEnds ==
    \E i \in Segments :
        /\ ti["scheduled"][split_table(i)] = "running"
        /\ job["scheduled"] = "running"

\* C8: a delete_table step that succeeds removes the destination table of its
\* segment whichever run materialized it: the table is addressed by the
\* segment's fixed name alone.
C8_DeleteIgnoresOwner ==
    [][\A r \in Runs, i \in Segments :
          ( /\ ti[r][delete_table(i)] = "running"
            /\ ti'[r][delete_table(i)] = "success" )
          => tables'[table_name(tasks[i].postfix)] = NoTable]_vars

\* C8 witness: between one run's split and extract the other run deleted and
\* re-materialized the table, and the first run exported the other's table.
C8_ExportedOtherRunsTable ==
    \E i \in Segments :
        LET object == gcs[gcs_file_name(tasks[i].postfix)]
        IN  /\ object # NoObject
            /\ object.by # object.table_by
            /\ ti[object.by][split_table(i)] = "success"

\* C9 (as claimed): every task id check_table_exists selects is a task of
\* the DAG.
C9_SuccessorInGraph == branch # NoCall => branch.result \in TaskIds

\* C10: every call of check_table_exists returns "bq_data_statistics" when
\* the table it asks about is in the catalog at that moment and "bq_copy"
\* when it is not, whatever earlier calls returned.
C10_BranchFollowsCatalog ==
    [][\A kwargs \in CheckKwargs :
          CheckTableExists(kwargs) =>
              LET name == kwargs.project_id \o "." \o kwargs.dataset_id
                              \o "." \o kwargs.table_id
                  present == \/ name = SourceTable
                             \/ \E n \in TableNames :
                                   n = name /\ tables[n] # NoTable
              IN  /\ present => branch'.result = "bq_data_statistics"
                  /\ ~present => branch'.result = "bq_copy"]_vars

\* C10 witness: the same triple was answered "bq_copy" before the table was
\* materialized and is answered "bq_data_statistics" now that it exists.
C10_ExistingTableSelectsStatistics ==
    /\ branch # NoCall
    /\ branch.kwargs.project_id = PROJECT_ID
    /\ branch.kwargs.table_id = BQ_TABLE \o "_" \o tasks[1].postfix
    /\ branch.result = "bq_data_statistics"
    /\ tables[table_name(tasks[1].postfix)] # NoTable

\* C11 (as claimed): over an unchanged source table, the rows a later
\* successful split_table materializes for a segment are the rows the
\* earlier run materialized and exported for it.
C11_SameMembership ==
    \A i \in Segments :
        LET table == tables[table_name(tasks[i].postfix)]
            object == gcs[gcs_file_name(tasks[i].postfix)]
        IN  ( /\ table # NoTable
              /\ object # NoObject
              /\ ti["manual"][split_table(i)] = "success"
              /\ object.table_by = "scheduled" )
            => IF table.by = "manual" THEN table.rows = object.rows ELSE TRUE

\* C12: a delete_table step whose remote call is answered succeeds also when
\* the destination table does not exist, and then leaves the tables as they
\* were.
C12_IdempotentDelete ==
    [][\A r \in Runs, i \in Segments :
          ( /\ DeleteTable(r, i, TRUE)
            /\ tables[table_name(tasks[i].postfix)] = NoTable )
          => /\ ti'[r][delete_table(i)] = "success"
             /\ tables' = tables]_vars

\* C12 witness: in a run that began with no destination table, every
\* segment's delete succeeded, no table appeared, and a chain has gone on to
\* its split step.
C12_CleanRunDeletes ==
    /\ \A i \in Segments : ti["scheduled"][delete_table(i)] = "success"
    /\ \A n \in TableNames : tables[n] = NoTable
    /\ ti["scheduled"][split_table(1)] = "running"

\* C13: the three segments have pairwise distinct destination tables and
\* storage paths, and a step of one segment's chain leaves every other
\* segment's table and object as they were; the extract step exports the rows
\* of its own segment's table.
C13_ExclusiveOwnership ==
    /\ [](\A i, j \in Segments :
            i # j => /\ table_name(tasks[i].postfix) # table_name(tasks[j].postfix)
                     /\ gcs_file_name(tasks[i].postfix) # gcs_file_name(tasks[j].postfix))
    /\ [][\A r \in Runs, i \in Segments :
            (\E t \in ChainTasks(i) : ti'[r][t] # ti[r][t])
            => /\ \A n \in TableNames \ {table_name(tasks[i].postfix)} :
                     tables'[n] = tables[n]
               /\ \A n \in GcsNames \ {gcs_file_name(tasks[i].postfix)} :
                     gcs'[n] = gcs[n]
               /\ ti'[r][extract_to_gcs(i)] = "success"
                     => gcs'[gcs_file_name(tasks[i].postfix)].rows
                           = tables[table_name(tasks[i].postfix)].rows]_vars

\* C13 witness: the three chains have each materialized their own table and
\* exported their own object, all different.
C13_ThreeTablesThreeObjects ==
    /\ \A i \in Segments :
          /\ tables[table_name(tasks[i].postfix)] # NoTable
          /\ gcs[gcs_file_name(tasks[i].postfix)] # NoObject
    /\ Cardinality({tables[n] : n \in TableNames}) = Len(tasks)
    /\ Cardinality(DOMAIN gcs) = Len(tasks)

\* C14: a step whose remote call fails ends as a failed task and changes no
\* table, object or job; a failed task stays failed and no task is started
\* twice; and no task downstream of a failed task begins.
C14_FailureSurfaced ==
    /\ [](\A r \in Runs, t \in TaskIds :
            ti[r][t] = "failed"
                => \A d \in Descendants(t) : ti[r][d] \in {"none", "upstream_failed"})
    /\ [][\A r \in Runs :
            /\ \A t \in TaskIds :
                  /\ ti[r][t] = "failed" => ti'[r][t] = "failed"
                  /\ (ti'[r][t] = "running" /\ ti[r][t] # "running")
                        => ti[r][t] = "none"
            /\ RunAnalyzer(r, FALSE)
                  => /\ ti'[r][tfdv_statistics_task] = "failed"
                     /\ UNCHANGED <<job, tables, gcs>>
            /\ \A i \in Segments :
                  /\ DeleteTable(r, i, FALSE)
                        => /\ ti'[r][delete_table(i)] = "failed"
                           /\ UNCHANGED <<job, tables, gcs>>
                  /\ SplitTable(r, i, FALSE)
                        => /\ ti'[r][split_table(i)] = "failed"
                           /\ UNCHANGED <<job, tables, gcs>>
                  /\ ExtractToGcs(r, i, FALSE)
                        => /\ ti'[r][extract_to_gcs(i)] = "failed"
                           /\ UNCHANGED <<job, tables, gcs>>]_vars

\* C14 witness: a split failed; its extract was given up and the table the
\* split should have written is still absent.
C14_SplitFailed ==
    /\ ti["scheduled"][split_table(1)] = "failed"
    /\ ti["scheduled"][extract_to_gcs(1)] = "upstream_failed"
    /\ tables[table_name(tasks[1].postfix)] = NoTable

\* C15: whatever the arguments of a run_analyzer call, schema_file is
\* <dataset root>/taxi_schema.pbtxt and the parameter map has exactly the
\* keys bq_project_id, query, start_time, end_time, output_path and
\* schema_file, plus baseline_stats_file only for a supplied baseline.
C15_SchemaFileAndKeys ==
    (direct # NoCall /\ direct.request # NoLaunch) =>
        LET parameters == direct.request.body.launch_parameter.parameters
            baseline == direct.args.baseline_stats_location
            supplied == baseline # None /\ baseline # Str("")
            fixed == {"bq_project_id", "query", "start_time", "end_time",
                      "output_path", "schema_file"}
        IN  /\ parameters["schema_file"] = DATASET_GCS_FOLDER \o "/taxi_schema.pbtxt"
            /\ DOMAIN parameters
                  = IF supplied THEN fixed \cup {"baseline_stats_file"} ELSE fixed

\* C15 witness: a call with an output path, a time window and a baseline of
\* the caller's own was made.
C15_CallWithOtherArguments ==
    /\ direct # NoCall
    /\ direct.request # NoLaunch
    /\ direct.args.output_path = "gs://bucket/out"
    /\ direct.args.end_time = "2020-09-02T00:00:00"
    /\ direct.args.baseline_stats_location = Str("gs://bucket/baseline")
    /\ direct.request.body.launch_parameter.parameters["output_path"] = "gs://bucket/out"

\* The steps of segment i's chain that come before task t of that chain.
EarlierInChain(i, t) ==
    IF t = delete_table(i) THEN {}
    ELSE IF t = split_table(i) THEN {delete_table(i)}
    ELSE {delete_table(i), split_table(i)}

\* C16: a task of a chain is given up only when the statistics step or a step
\* of its own chain failed, and once the statistics step and the earlier
\* steps of its own chain have succeeded it can be started, whatever has
\* happened in the other chains.
C16_FailureStaysInChain ==
    \A i \in Segments : \A t \in ChainTasks(i) :
        /\ ti["scheduled"][t] = "upstream_failed"
              => \/ ti["scheduled"][tfdv_statistics_task] = "failed"
                 \/ \E u \in ChainTasks(i) : ti["scheduled"][u] = "failed"
        /\ ( /\ ti["scheduled"][t] = "none"
             /\ ti["scheduled"][tfdv_statistics_task] = "success"
             /\ \A u \in EarlierInChain(i, t) : ti["scheduled"][u] = "success" )
              => ENABLED StartTask("scheduled", t)

\* C16 witness: the delete of one segment failed and the other two chains
\* ran all three of their steps to success.
C16_OtherChainsSucceeded ==
    /\ ti["scheduled"][delete_table(1)] = "failed"
    /\ \A i \in Segments \ {1} : \A t \in ChainTasks(i) :
          ti["scheduled"][t] = "success"

\* Every task of run r has ended: succeeded, failed, or given up because an
\* upstream task failed.
Terminal(r) ==
    \A t \in TaskIds : ti[r][t] \in {"success", "failed", "upstream_failed"}

\* C17: no task of the DAG is downstream of itself, and a run that has been
\* triggered eventually has all ten of its tasks succeeded, failed or given up.
C17_RunTerminates ==
    /\ [](Cardinality(TaskIds) = 10 /\ \A t \in TaskIds : t \notin Descendants(t))
    /\ ("scheduled" \in dag_runs) ~> Terminal("scheduled")

\* C17 witness: a run has ended with tasks of all three kinds: succeeded,
\* failed and given up.
C17_EndedMixed ==
    /\ Terminal("scheduled")
    /\ \A t \in ChainTasks(1) : ti["scheduled"][t] = "success"
    /\ ti["scheduled"][split_table(2)] = "failed"
    /\ ti["scheduled"][extract_to_gcs(2)] = "upstream_failed"

====
